---- MODULE Spec2Model ----
(***************************************************************************)
(* A model of noip_renewer_v2.py: the retry executor                       *)
(* (NoIPRenewerV2.retry_with_backoff, calculate_retry_delay), the per-host *)
(* renewal (NoIPRenewerV2._renew_single_host) and the orchestration run    *)
(* (NoIPRenewerV2.run_renewal_process, send_final_notification).           *)
(*                                                                         *)
(* Two specifications share the variables:                                 *)
(*   SpecRetry  one call of retry_with_backoff on a scripted operation;    *)
(*   Spec       one call of run_renewal_process.                           *)
(* Delays are in milliseconds.                                             *)
(***************************************************************************)
EXTENDS Integers, Sequences, FiniteSets, TLC

\* ------------------------------------------------------------------ bounds
\* Largest retry_config.max_retries drawn; also the length of the script
\* that fixes the operation's behaviour on each invocation.
MaxRetries == 3
\* Largest number of entries of config['hosts'] drawn.
MaxHosts == 2

\* The largest float, scaled down to the delays of the model: a power
\* above it is not a float.
FloatMax == 1048576

\* Largest attempt index calculate_retry_delay is called with on its own.
MaxAttempt == 24

\* Last day of the clock: the scheduler makes no sleep that ends after it.
MaxClockDays == 26

\* ------------------------------------------------- RetryConfig defaults
base_delay == 1000
max_delay == 60000
exponential_base == 2

VARIABLES
    \* ---- configuration (set by __init__, never written afterwards)
    retry_config,      \* [max_retries, jitter]
    hosts,             \* config['hosts']: HostList(names) or NotIterable
    \* ---- retry_with_backoff, one call
    script,            \* what func does on its i-th invocation
    rpc,               \* "idle" | "loop" | "returned" | "raised"
    attempt,           \* the loop variable of `for attempt in range(...)`
    invocations,       \* number of times func was invoked
    sleeps,            \* the asyncio.sleep(delay) waits, in order
    last_exception,    \* the local last_exception
    outcome,           \* what the call returned or raised
    \* ---- run_renewal_process, one call
    pc,                \* position in run_renewal_process
    interrupted,       \* an external interrupt reached the run
    playwright,        \* self.playwright: "None" | "started"
    browser,           \* self.browser: "None" | "open" | "closed"
    page,              \* self.page: "None" | "open"
    close_calls,       \* number of browser.close() calls made by the run
    login_ok,          \* what login_to_noip returned: "unset" | "True" | "False"
    host_log,          \* one record per call of _renew_single_host, in order
    renewal_results,   \* the local renewal_results: <<[host, status], ...>>
    results,           \* the report: the dict `results`
    notifications,     \* the calls of send_notification, in order
    sink,              \* self.notification_config, as send_notification reads it
    sink_returns,      \* the value each call of send_notification returned
    \* ---- monitor_renewal_schedule
    spc,               \* "off" | "check" | "running" | "stopped"
    clock,             \* datetime.now(), in hours
    iter_now,          \* the local `now` of the current iteration
    last_run,          \* the file last_renewal.txt
    last_check,        \* what the latest check saw and decided
    last_sleep,        \* hours of the latest asyncio.sleep of the loop
    runs_started,      \* number of run_renewal_process calls made
    \* ---- login_to_noip
    lpc,               \* "off" | "entry" | "poll" | how the call returned
    challenge,         \* the verification the page asked for
    poll_i,            \* the loop variable i of the wait loop
    waited,            \* seconds slept in the wait loop so far
    totp_secret,       \* whether self.totp_secret is set
    content,           \* page_content after the credentials were submitted
    auto,              \* how the automatic TOTP entry went
    \* ---- safe_page_operation
    op_script,         \* what operation_func does on its 1st, 2nd, ... call
    wrapped_log,       \* what wrapped_operation did on each of its calls
    \* ---- calculate_retry_delay, called for attempt 0, 1, 2, ...
    dpc,               \* "off" | "calls"
    policy,            \* self.retry_config: base_delay, max_delay, ...
    d_att,             \* the attempt index of the next call
    d_last,            \* what the latest call did
    d_prev,            \* what the call before it did
    \* ---- _renew_single_host, called on one view
    vpc,               \* "off" | "call" | "returned"
    view,              \* what the page shows to the call
    ret                \* the status returned and the clicks made

vars == <<retry_config, hosts, script, rpc, attempt, invocations, sleeps,
          last_exception, outcome, pc, playwright, browser, page, close_calls,
          login_ok, host_log, renewal_results, results, notifications,
          sink, sink_returns,
          interrupted, spc, clock, iter_now, last_run, last_check, last_sleep,
          runs_started, lpc, challenge, poll_i, waited, totp_secret, content, auto,
          op_script, wrapped_log, dpc, policy, d_att, d_last, d_prev,
          vpc, view, ret>>

delay_vars == <<dpc, policy, d_att, d_last, d_prev>>

retry_vars == <<script, rpc, attempt, invocations, sleeps, last_exception, outcome,
                op_script, wrapped_log, delay_vars>>

run_vars == <<pc, playwright, browser, page, close_calls, login_ok, host_log,
              renewal_results, results, notifications, interrupted, sink,
              sink_returns>>

sched_vars == <<spc, clock, iter_now, last_run, last_check, last_sleep,
                runs_started>>

login_vars == <<lpc, challenge, poll_i, waited, totp_secret, content, auto>>

renew_vars == <<vpc, view, ret>>

\* What no step of run_renewal_process writes.
outside_run_vars == <<retry_vars, sched_vars, login_vars, renew_vars>>

\* What no step of retry_with_backoff writes.
outside_retry_vars == <<run_vars, sched_vars, login_vars, renew_vars>>

\* What no step of monitor_renewal_schedule writes, the run's state aside.
outside_sched_vars == <<retry_vars, login_vars, renew_vars>>

Min(a, b) == IF a <= b THEN a ELSE b

\* b ** e on floats: the power itself while it is a float, and some value
\* above FloatMax when it is not (there `**` raises OverflowError).
RECURSIVE Pow(_, _)
Pow(b, e) ==
    IF e = 0 THEN 1
    ELSE LET p == Pow(b, e - 1)
         IN  IF p > FloatMax THEN p ELSE b * p

\* ------------------------------------------------------- exceptions
\* An exception object: its class and the invocation that raised it (at = 0
\* for one the executor itself constructs).
NoException == [cls |-> "None", at |-> 0, cause |-> 0]

\* The exception func raises on invocation i when it behaves as class c.
Raised(c, i) == [cls |-> c, at |-> i, cause |-> 0]

\* What func can do on one invocation: return a value, or raise.
\* "Exception" is any Exception that is not a NonRetryableError.
FuncBehaviours == {"ok", "RetryableError", "Exception", "NonRetryableError"}

RetryableClasses == {"RetryableError", "Exception"}

\* random.random(), in thousandths.
RandomDraws == {0, 500, 999}

\* What a call of calculate_retry_delay does: it returns the delay d, or
\* it raises.
Returns(d) == [kind |-> "return", d |-> d]

Raises(cls) == [kind |-> cls, d |-> 0]

NoResult == [kind |-> "none", d |-> 0]

\* Lines 173-181 under the retry configuration pol, r the value of
\* random.random() * 1000: `exponential_base ** attempt` raises
\* OverflowError when the power is not a float; a product that is not a
\* float is inf, which min() replaces by max_delay.
RetryDelay(pol, att, r) ==
    LET power == Pow(pol.exponential_base, att)
        delay == Min(pol.base_delay * power, pol.max_delay)
    IN  IF power > FloatMax THEN Raises("OverflowError")
        ELSE IF pol.jitter THEN Returns(delay + ((delay * r) \div 10000))
        ELSE Returns(delay)

\* self.retry_config as the specifications of retry_with_backoff have it:
\* the default delays.
DefaultDelays ==
    [base_delay |-> base_delay, max_delay |-> max_delay,
     exponential_base |-> exponential_base, jitter |-> retry_config.jitter]

\* calculate_retry_delay(attempt), r the value of random.random() * 1000.
calculate_retry_delay(att, r) == RetryDelay(DefaultDelays, att, r).d

\* One call of calculate_retry_delay, for the next attempt index.
DelayCall ==
    /\ dpc = "calls"
    /\ d_att <= MaxAttempt
    /\ \E r \in (IF policy.jitter THEN RandomDraws ELSE {0}) :
          d_last' = RetryDelay(policy, d_att, r)
    /\ d_prev' = d_last
    /\ d_att' = d_att + 1
    /\ UNCHANGED <<dpc, policy>>
    /\ UNCHANGED <<retry_config, hosts, script, rpc, attempt, invocations, sleeps,
                   last_exception, outcome, op_script, wrapped_log>>
    /\ UNCHANGED <<run_vars, sched_vars, login_vars, renew_vars>>

DelayIdle ==
    /\ dpc = "off"
    /\ policy = [base_delay |-> base_delay, max_delay |-> max_delay,
                 exponential_base |-> exponential_base, jitter |-> TRUE]
    /\ d_att = 0
    /\ d_last = NoResult
    /\ d_prev = NoResult

\* ------------------------------------------------ retry_with_backoff
\* `raise last_exception or Exception("Retry exhausted")`
ExhaustedRaise(last) ==
    IF last # NoException THEN last ELSE Raised("Exception", 0)

\* A dispatch that lets NonRetryableError fall into `except Exception`.
ExceptClauseAlwaysRetry(c) == "retry"

\* The except clause that catches an exception of class c raised by func:
\* "propagate" (except NonRetryableError: raise) or "retry" (except Exception).
ExceptClause(c) == IF c = "NonRetryableError" THEN "propagate" ELSE "retry"

\* `if attempt < self.retry_config.max_retries - 1`
BackoffDue(att) == att < retry_config.max_retries - 1

\* A record that keeps the first exception instead of the latest.
RecordExceptionKeepFirst(last, e) == IF last = NoException THEN e ELSE last

\* last_exception = e
RecordException(last, e) == e

\* A loop that makes one attempt fewer than the budget.
LoopContinuesOneFewer(att) == att < retry_config.max_retries - 1

\* A loop that makes one attempt more than the budget.
LoopContinuesOneMore(att) == att <= retry_config.max_retries

\* `for attempt in range(self.retry_config.max_retries)`
LoopContinues(att) == att < retry_config.max_retries

\* One iteration of the for loop, func behaving as b on this invocation:
\* return, propagate, or record the exception and (when attempts remain)
\* sleep.
RetryIteration(b) ==
    /\ rpc = "loop"
    /\ LoopContinues(attempt)
    /\ invocations' = invocations + 1
    /\ LET e == Raised(b, invocations + 1)
       IN  IF b = "ok"
           THEN /\ rpc' = "returned"
                /\ outcome' = [kind |-> "return", value |-> invocations + 1,
                               exc |-> NoException]
                /\ UNCHANGED <<attempt, sleeps, last_exception>>
           ELSE IF ExceptClause(b) = "propagate"
           THEN /\ rpc' = "raised"
                /\ outcome' = [kind |-> "raise", value |-> 0, exc |-> e]
                /\ UNCHANGED <<attempt, sleeps, last_exception>>
           ELSE /\ last_exception' = RecordException(last_exception, e)
                /\ attempt' = attempt + 1
                /\ IF BackoffDue(attempt)
                   THEN \E r \in (IF retry_config.jitter THEN RandomDraws ELSE {0}) :
                            sleeps' = Append(sleeps, calculate_retry_delay(attempt, r))
                   ELSE sleeps' = sleeps
                /\ UNCHANGED <<rpc, outcome>>
    /\ UNCHANGED <<retry_config, hosts, script, op_script, delay_vars>>
    /\ UNCHANGED outside_retry_vars

\* retry_with_backoff(func), func doing what the script says.
RetryAttempt ==
    /\ RetryIteration(script[attempt + 1])
    /\ UNCHANGED wrapped_log

\* The loop is over: raise last_exception or Exception("Retry exhausted").
RetryExhausted ==
    /\ rpc = "loop"
    /\ ~LoopContinues(attempt)
    /\ rpc' = "raised"
    /\ outcome' = [kind |-> "raise", value |-> 0,
                   exc |-> ExhaustedRaise(last_exception)]
    /\ UNCHANGED <<retry_config, hosts, script, attempt, invocations, sleeps,
                   last_exception, op_script, wrapped_log, delay_vars>>
    /\ UNCHANGED outside_retry_vars

\* ------------------------------------------------- safe_page_operation
\* str(e).lower() of an exception, as far as the keyword tests of lines
\* 196-206 can tell messages apart:
\*   net   it holds 'timeout', 'network' or 'connection'
\*   elem  it holds 'element not found' or 'locator'
\*   auth  it holds 'permission', 'unauthorized' or 'forbidden'
Messages == [net : BOOLEAN, elem : BOOLEAN, auth : BOOLEAN]

\* "page not initialized": none of the keywords.
PageNotInitialized == [net |-> FALSE, elem |-> FALSE, auth |-> FALSE]

\* What operation_func can do on one call: return, or raise an exception
\* of some class with some message.
OkOp == [cls |-> "ok", msg |-> PageNotInitialized]

OpBehaviours ==
    {OkOp} \cup [cls : {"Exception", "NonRetryableError"}, msg : Messages]

\* What wrapped_operation does on one call: the class it raises ("ok" when
\* it returns) and the prefix of the message it raises it with.
Wrapped(c, as) == [cls |-> c, as |-> as]

\* A classification that tests the authorization keywords first.
ClassifyErrorAuthFirst(m) ==
    IF m.auth THEN Wrapped("NonRetryableError", "Authorization error")
    ELSE IF m.net THEN Wrapped("RetryableError", "Network error")
    ELSE IF m.elem THEN Wrapped("RetryableError", "Element not found")
    ELSE Wrapped("RetryableError", "Generic error")

\* Lines 192-211: the if/elif chain on the message of the caught exception.
ClassifyError(m) ==
    IF m.net THEN Wrapped("RetryableError", "Network error")
    ELSE IF m.elem THEN Wrapped("RetryableError", "Element not found")
    ELSE IF m.auth THEN Wrapped("NonRetryableError", "Authorization error")
    ELSE Wrapped("RetryableError", "Generic error")

\* wrapped_operation (lines 185-211): with no page the NonRetryableError of
\* line 188 is raised inside the try block, so it is caught at line 192
\* and classified by its message like any exception of operation_func.
wrapped_operation(pg, op) ==
    IF pg = "None" THEN ClassifyError(PageNotInitialized)
    ELSE IF op.cls = "ok" THEN Wrapped("ok", "")
    ELSE ClassifyError(op.msg)

\* safe_page_operation (lines 213-217): retry_with_backoff on
\* wrapped_operation, one iteration.
SafeAttempt ==
    /\ LET w == wrapped_operation(page, op_script[attempt + 1])
       IN  /\ RetryIteration(w.cls)
           /\ wrapped_log' = Append(wrapped_log, w)

\* --------------------------------------------------- RenewalStatus values
SUCCESS == "success"
FAILED == "failed"
RETRY_NEEDED == "retry_needed"
NO_RENEWAL_NEEDED == "no_renewal_needed"

\* ------------------------------------------------------ _renew_single_host
\* What the page shows to one call of _renew_single_host. Each field is the
\* answer to one query at the moment the code makes it:
\*   row        tr:has-text(host) matches                        (line 772)
\*   elem       *:has-text(host) matches                         (line 778)
\*   btn_first  a Renew/Confirm control is on the page           (line 786)
\*   ci         the filter on host.lower() matches               (line 799)
\*   partial    *:has-text(host.split('.')[0]) matches           (line 806)
\*   row_btn    a Renew/Confirm control inside host_row          (line 817)
\*   page_btn   a Renew/Confirm control anywhere on the page     (line 824)
\*   ext_btn    an Extend/Update control anywhere on the page    (line 834)
\*   phrase     the content holds a success indicator            (line 858)
\*   raise_at   the step at which a page interaction raises, if any
RaisePoints == {"none", "navigate", "locate", "click_first", "search",
                "click", "settle"}

Views ==
    [row : BOOLEAN, elem : BOOLEAN, btn_first : BOOLEAN, ci : BOOLEAN,
     partial : BOOLEAN, row_btn : BOOLEAN, page_btn : BOOLEAN,
     ext_btn : BOOLEAN, phrase : BOOLEAN, raise_at : RaisePoints]

\* What a call hands back: the RenewalStatus returned and the number of
\* controls it clicked.
Ret(st, n) == [status |-> st, clicks |-> n]

\* Lines 847-863: the check of the content after the click.
VerifyRenewal(v, n) ==
    IF v.raise_at = "settle" THEN Ret(FAILED, n)
    ELSE IF v.phrase THEN Ret(SUCCESS, n)
    ELSE Ret(RETRY_NEEDED, n)

\* Lines 813-845: the search for a control in host_row, then on the whole
\* page, and the click; n is the number of clicks made before it.
FindAndClick(v, n) ==
    IF v.raise_at = "search" THEN Ret(FAILED, n)
    ELSE IF v.row_btn \/ v.page_btn \/ v.ext_btn
    THEN IF v.raise_at = "click" THEN Ret(FAILED, n)
         ELSE VerifyRenewal(v, n + 1)
    ELSE Ret(NO_RENEWAL_NEEDED, n)

\* A search that takes a host found by no selector for one not due.
LocateHostLenient(v) ==
    IF v.raise_at = "locate" THEN Ret(FAILED, 0)
    ELSE IF v.row THEN FindAndClick(v, 0)
    ELSE IF v.elem
    THEN IF v.btn_first
         THEN IF v.raise_at = "click_first" THEN Ret(FAILED, 0)
              ELSE FindAndClick(v, 1)
         ELSE Ret(NO_RENEWAL_NEEDED, 0)
    ELSE IF v.ci \/ v.partial THEN FindAndClick(v, 0)
    ELSE Ret(NO_RENEWAL_NEEDED, 0)

\* Lines 769-811: the search for the host's entry.
LocateHost(v) ==
    IF v.raise_at = "locate" THEN Ret(FAILED, 0)
    ELSE IF v.row THEN FindAndClick(v, 0)
    ELSE IF v.elem
    THEN IF v.btn_first
         THEN IF v.raise_at = "click_first" THEN Ret(FAILED, 0)
              ELSE FindAndClick(v, 1)
         ELSE Ret(NO_RENEWAL_NEEDED, 0)
    ELSE IF v.ci \/ v.partial THEN FindAndClick(v, 0)
    ELSE Ret(FAILED, 0)

\* _renew_single_host with self.page set: every exception is caught and
\* turned into FAILED (lines 865-867).
RenewWithPage(v) ==
    IF v.raise_at = "navigate" THEN Ret(FAILED, 0) ELSE LocateHost(v)

\* Every result a call can have on some page.
PageResults == {RenewWithPage(v) : v \in Views}

\* _renew_single_host(host): `if not self.page: return FAILED`, else the
\* renewal on whatever the page shows.
renew_single_host(pg) ==
    IF pg = "None" THEN {Ret(FAILED, 0)} ELSE PageResults

\* _renew_single_host(host) on the page showing v.
renew_single_host_on(pg, v) ==
    IF pg = "None" THEN Ret(FAILED, 0) ELSE RenewWithPage(v)

\* A view with nothing on it.
NoView ==
    [row |-> FALSE, elem |-> FALSE, btn_first |-> FALSE, ci |-> FALSE,
     partial |-> FALSE, row_btn |-> FALSE, page_btn |-> FALSE,
     ext_btn |-> FALSE, phrase |-> FALSE, raise_at |-> "none"]

NoRet == Ret("none", 0)

\* One call of _renew_single_host (lines 710-867) on the view.
RenewCall ==
    /\ vpc = "call"
    /\ ret' = renew_single_host_on(page, view)
    /\ vpc' = "returned"
    /\ UNCHANGED <<retry_config, hosts, view, run_vars, retry_vars, sched_vars,
                   login_vars>>

RenewIdle ==
    /\ vpc = "off"
    /\ view = NoView
    /\ ret = NoRet

\* --------------------------------------------------- run_renewal_process
\* config['hosts'] when it is a value `for host in hosts` cannot iterate
\* (a number, null): it has no entries.
NotIterable == [iterable |-> FALSE, items |-> <<>>]

\* config['hosts'] when it is the list items.
HostList(items) == [iterable |-> TRUE, items |-> items]

HostNames == {"hostA", "hostB"}

SeqsUpTo(S, n) == UNION {[1..k -> S] : k \in 0..n}

\* The dict `results` as created at lines 345-352 (end_time: whether the
\* finally clause has set results['end_time'] and results['duration']).
EmptyResults ==
    [success |-> FALSE, hosts_renewed |-> <<>>, hosts_failed |-> <<>>,
     errors |-> <<>>, end_time |-> FALSE]

Notification(subject, priority) == [subject |-> subject, priority |-> priority]

\* What a call of send_notification can return (lines 886-931): True
\* without sending when email is disabled, False when the email
\* configuration is incomplete, and with a complete one True when the mail
\* was sent and False when sending raised (caught at line 929).
SinkConfigs == {"disabled", "incomplete", "complete"}

SinkReturns(cfg) ==
    IF cfg = "disabled" THEN {TRUE}
    ELSE IF cfg = "incomplete" THEN {FALSE}
    ELSE BOOLEAN

\* A caller that files a notification failure in the report.
ReportAfterNotifyFiled(res, returned) ==
    IF returned THEN res
    ELSE [res EXCEPT !.success = FALSE,
                     !.errors = Append(@, "Notification failed")]

\* `await self.send_notification(...)` as a statement (lines 365, 371, 428,
\* 482): the value returned is dropped, the report is what it was.
ReportAfterNotify(res, returned) == res

\* The notifications ns (none or one) are handed to send_notification,
\* the report being res.
SendAndKeep(ns, res) ==
    \E returned \in SinkReturns(sink) :
        /\ notifications' = notifications \o ns
        /\ sink_returns' = sink_returns \o [i \in 1..Len(ns) |-> returned]
        /\ results' = IF ns = <<>> THEN res ELSE ReportAfterNotify(res, returned)

\* A loop that stops at the first host that ends FAILED.
HostsLoopOverOnFailure(rr) ==
    \/ Len(rr) = Len(hosts.items)
    \/ (Len(rr) > 0 /\ rr[Len(rr)].status = FAILED)

\* `for host in hosts` has no host left.
HostsLoopOver(rr) == Len(rr) = Len(hosts.items)

\* A login check that never aborts the run.
LoginAbortsNever(ok) == FALSE

\* `if not await self.login_to_noip():` takes the abort branch.
LoginAborts(ok) == ~ok

\* A placement without the NO_RENEWAL_NEEDED branch.
PlaceResultNoSkip(res, e) ==
    IF e.status = SUCCESS
    THEN [res EXCEPT !.hosts_renewed = Append(@, e.host)]
    ELSE [res EXCEPT !.hosts_failed =
                        Append(@, [host |-> e.host, status |-> e.status])]

\* Lines 410-416: one entry of renewal_results placed in the report.
PlaceResult(res, e) ==
    IF e.status = SUCCESS
    THEN [res EXCEPT !.hosts_renewed = Append(@, e.host)]
    ELSE IF e.status = NO_RENEWAL_NEEDED
    THEN res
    ELSE [res EXCEPT !.hosts_failed =
                        Append(@, [host |-> e.host, status |-> e.status])]

\* Lines 409-416: the loop over renewal_results, entries i..Len(rr).
RECURSIVE PlaceAll(_, _, _)
PlaceAll(res, rr, i) ==
    IF i > Len(rr) THEN res ELSE PlaceAll(PlaceResult(res, rr[i]), rr, i + 1)

\* A success flag that only asks for no failure.
OverallSuccessNoFailure(renewed, failed) == Len(failed) = 0

\* Line 419.
OverallSuccess(renewed, failed) == Len(renewed) > 0 /\ Len(failed) = 0

\* A final notification without the early return for an empty report.
send_final_notification_always(res) ==
    IF res.success
    THEN <<Notification("No-IP Renewal Completed", "normal")>>
    ELSE <<Notification("No-IP Renewal Failed", "high")>>

\* send_final_notification: the calls of send_notification it makes.
send_final_notification(res) ==
    IF res.hosts_renewed = <<>> /\ res.hosts_failed = <<>> /\ res.errors = <<>>
    THEN <<>>
    ELSE IF res.success
    THEN <<Notification("No-IP Renewal Completed", "normal")>>
    ELSE <<Notification("No-IP Renewal Failed", "high")>>

\* Lines 361-365: setup_browser and, when it returns False, the early return.
\* how: where setup_browser stops.
SetupBrowser ==
    /\ pc = "start"
    /\ \E how \in {"ok", "start_raises", "launch_raises", "page_raises"} :
          /\ playwright' = IF how = "start_raises" THEN playwright ELSE "started"
          /\ browser' = IF how \in {"ok", "page_raises"} THEN "open" ELSE browser
          /\ page' = IF how = "ok" THEN "open" ELSE page
          /\ IF how = "ok"
             THEN /\ pc' = "login"
                  /\ UNCHANGED <<results, notifications, sink_returns>>
             ELSE /\ SendAndKeep(<<Notification("No-IP Renewal Error", "high")>>,
                        [results EXCEPT
                            !.errors = Append(@, "Unable to initialize browser")])
                  /\ pc' = "finally"
    /\ UNCHANGED <<retry_config, hosts, close_calls, login_ok, host_log,
                   renewal_results>>
    /\ UNCHANGED <<interrupted, sink>>
    /\ UNCHANGED outside_run_vars

\* Lines 368-372: login_to_noip, which returns a bool and raises nothing,
\* and, when it returns False, the early return.
AfterLogin(ok) ==
    /\ login_ok' = IF ok THEN "True" ELSE "False"
    /\ IF LoginAborts(ok)
       THEN /\ SendAndKeep(<<Notification("No-IP Login Error", "high")>>,
                  [results EXCEPT !.errors = Append(@, "Login failed")])
            /\ pc' = "finally"
       ELSE /\ pc' = "hosts"
            /\ UNCHANGED <<results, notifications, sink_returns>>
    /\ UNCHANGED <<retry_config, hosts, playwright, browser, page, close_calls,
                   host_log, renewal_results>>
    /\ UNCHANGED <<interrupted, sink>>

\* The whole call of login_to_noip in one step, with either result.
Login ==
    /\ pc = "login"
    /\ \E ok \in BOOLEAN : AfterLogin(ok)
    /\ UNCHANGED outside_run_vars

\* ------------------------------------------------------- login_to_noip
\* max_wait_time and check_interval of the three wait loops, in seconds
TotpMaxWait == 180
TotpInterval == 5
EmailMaxWait == 300
EmailInterval == 10
GenericMaxWait == 180
GenericInterval == 10

Challenges == {"totp", "email", "generic"}

max_wait_time(ch) ==
    IF ch = "totp" THEN TotpMaxWait
    ELSE IF ch = "email" THEN EmailMaxWait
    ELSE GenericMaxWait

check_interval(ch) ==
    IF ch = "totp" THEN TotpInterval
    ELSE IF ch = "email" THEN EmailInterval
    ELSE GenericInterval

\* A loop that polls once more at the deadline.
PollDueAtDeadline(i, ch) == i <= max_wait_time(ch)

\* `for i in range(0, max_wait_time, check_interval)` has a value for i.
PollDue(i, ch) == i < max_wait_time(ch)

\* page_content, as far as the keyword tests of lines 555, 630 and 662 can
\* tell contents apart:
\*   totp_kw     it holds 'totp', '2fa', 'authenticator' or 'app'
\*   email_text  it speaks of an email and then of a code or a verification
\*               ("we sent an email with a code")
\*   email_lit   it holds one of the literal texts 'email.*code',
\*               'email.*verification', 'check.*email'
\*   generic_kw  it holds 'verification', 'code' or 'verify'
\* A content that speaks of a code or a verification holds a generic
\* keyword.
Contents ==
    {ct \in [totp_kw : BOOLEAN, email_text : BOOLEAN, email_lit : BOOLEAN,
             generic_kw : BOOLEAN] : ct.email_text => ct.generic_kw}

NoContent ==
    [totp_kw |-> FALSE, email_text |-> FALSE, email_lit |-> FALSE,
     generic_kw |-> FALSE]

\* Lines 555, 630, 662: the if/elif chain of `keyword in page_content`
\* tests. The email keywords are tested as plain substrings.
Classify(ct) ==
    IF ct.totp_kw THEN "totp"
    ELSE IF ct.email_lit THEN "email"
    ELSE IF ct.generic_kw THEN "generic"
    ELSE "none"

\* How the automatic TOTP entry of lines 559-597 can go.
\*   no_secret  self.totp_secret is not set, nothing is tried
\*   no_code    generate_totp_code returned None
\*   no_input   no input field was found
\*   no_submit  no submit button was found
\*   rejected   the code was submitted and the url is not of the dashboard
\*   raised     an interaction raised, caught at line 596
\*   accepted   the code was submitted and the url is of the dashboard
AutoOutcomes(secret) ==
    IF secret
    THEN {"no_code", "no_input", "no_submit", "rejected", "raised", "accepted"}
    ELSE {"no_secret"}

\* An automatic entry that never ends the login.
AutoEndsLoginNever(au) == FALSE

\* An automatic entry that ends the login when it has submitted a code.
AutoEndsLoginOnSubmit(au) == au \in {"accepted", "rejected"}

\* Lines 586-589: the automatic entry returns from login_to_noip.
AutoEndsLogin(au) == au = "accepted"

\* login_to_noip returns ok to line 368; how: the return statement taken.
LoginReturns(how, ok) ==
    /\ lpc' = how
    /\ AfterLogin(ok)
    /\ UNCHANGED <<retry_vars, sched_vars, renew_vars, totp_secret>>

\* The wait loop of the verification ch starts.
PollStarts(ch) ==
    /\ lpc' = "poll"
    /\ challenge' = ch
    /\ poll_i' = 0
    /\ waited' = 0
    /\ UNCHANGED <<retry_config, hosts, run_vars, retry_vars, sched_vars,
                   renew_vars, totp_secret>>

\* Lines 529-607 and 693-708: the credentials are submitted and the page
\* is classified. seen: what the call meets.
\*   raises         a page interaction raises: except Exception, False
\*   authenticated  the url is of the dashboard: True (line 549)
\*   content        the content ct is read and classified; with no
\*                  verification keyword the checks of lines 694-704 decide
\*                  (fin), else the TOTP entry is tried (au) or the wait
\*                  loop starts
LoginSubmit ==
    /\ pc = "login"
    /\ lpc = "entry"
    /\ IF page = "None"
       THEN /\ LoginReturns("no_page", FALSE)
            /\ UNCHANGED <<challenge, poll_i, waited, content, auto>>
       ELSE \E seen \in {"raises", "authenticated", "content"} :
               IF seen # "content"
               THEN /\ LoginReturns(seen, seen = "authenticated")
                    /\ UNCHANGED <<challenge, poll_i, waited, content, auto>>
               ELSE \E ct \in Contents :
                       /\ content' = ct
                       /\ IF Classify(ct) = "none"
                          THEN \E fin \in {"still_login", "final_ok", "final_unknown"} :
                                  /\ LoginReturns(fin, fin = "final_ok")
                                  /\ UNCHANGED <<challenge, poll_i, waited, auto>>
                          ELSE IF Classify(ct) = "totp"
                          THEN \E au \in AutoOutcomes(totp_secret) :
                                  /\ auto' = au
                                  /\ IF AutoEndsLogin(au)
                                     THEN /\ LoginReturns("auto_totp", au = "accepted")
                                          /\ challenge' = "totp"
                                          /\ UNCHANGED <<poll_i, waited>>
                                     ELSE PollStarts("totp")
                          ELSE /\ PollStarts(Classify(ct))
                               /\ UNCHANGED auto

\* Lines 612-619, 644-651, 676-683: one iteration of the wait loop: the
\* sleep of check_interval seconds, then the look at the url.
LoginPoll ==
    /\ pc = "login"
    /\ lpc = "poll"
    /\ PollDue(poll_i, challenge)
    /\ waited' = waited + check_interval(challenge)
    /\ \E seen \in {"authenticated", "not_yet", "raises"} :
          IF seen = "not_yet"
          THEN /\ poll_i' = poll_i + check_interval(challenge)
               /\ UNCHANGED <<lpc, retry_config, hosts, run_vars, retry_vars,
                              sched_vars, renew_vars, totp_secret>>
          ELSE /\ LoginReturns(IF seen = "raises" THEN "raises" ELSE "verified",
                               seen = "authenticated")
               /\ UNCHANGED poll_i
    /\ UNCHANGED <<challenge, content, auto>>

\* Lines 626-627, 658-659, 690-691: the loop is over, the call returns False.
LoginTimeout ==
    /\ pc = "login"
    /\ lpc = "poll"
    /\ ~PollDue(poll_i, challenge)
    /\ LoginReturns("timeout", FALSE)
    /\ UNCHANGED <<challenge, poll_i, waited, content, auto>>

LoginIdle ==
    /\ lpc = "off"
    /\ challenge = "none"
    /\ poll_i = 0
    /\ waited = 0
    /\ totp_secret = FALSE
    /\ content = NoContent
    /\ auto = "none"

\* Lines 376-378 with a config['hosts'] that cannot be iterated: the
\* TypeError reaches `except Exception` (lines 421-428).
GeneralError ==
    /\ pc = "hosts"
    /\ ~hosts.iterable
    /\ SendAndKeep(<<Notification("Critical Renewal Error", "high")>>,
          [results EXCEPT !.errors = Append(@, "General error in renewal process")])
    /\ pc' = "finally"
    /\ UNCHANGED <<retry_config, hosts, playwright, browser, page, close_calls,
                   login_ok, host_log, renewal_results>>
    /\ UNCHANGED <<interrupted, sink>>
    /\ UNCHANGED outside_run_vars

\* Lines 378-406: one iteration of `for host in hosts`: one call of
\* _renew_single_host, its status appended to renewal_results.
RenewHost ==
    /\ pc = "hosts"
    /\ hosts.iterable
    /\ ~HostsLoopOver(renewal_results)
    /\ LET i == Len(renewal_results) + 1
       IN  \E r \in renew_single_host(page) :
              /\ host_log' = Append(host_log,
                    [entry |-> i, host |-> hosts.items[i], status |-> r.status,
                     clicks |-> r.clicks])
              /\ renewal_results' = Append(renewal_results,
                    [host |-> hosts.items[i], status |-> r.status])
    /\ UNCHANGED <<retry_config, hosts, pc, playwright, browser, page,
                   close_calls, login_ok, results, notifications, sink_returns>>
    /\ UNCHANGED <<interrupted, sink>>
    /\ UNCHANGED outside_run_vars

\* Lines 408-419: the results placed in the report, and the success flag.
ProcessResults ==
    /\ pc = "hosts"
    /\ hosts.iterable
    /\ HostsLoopOver(renewal_results)
    /\ LET placed == PlaceAll(results, renewal_results, 1)
       IN  results' = [placed EXCEPT
              !.success = OverallSuccess(placed.hosts_renewed, placed.hosts_failed)]
    /\ pc' = "finally"
    /\ UNCHANGED <<retry_config, hosts, playwright, browser, page, close_calls,
                   login_ok, host_log, renewal_results, notifications,
                   sink_returns>>
    /\ UNCHANGED <<interrupted, sink>>
    /\ UNCHANGED outside_run_vars

\* An external interrupt (KeyboardInterrupt under asyncio.run, a task
\* cancellation) reaches the run while it waits inside the try block: in
\* setup_browser, login_to_noip or a host renewal. It is a CancelledError,
\* which no `except Exception` catches (lines 315, 397, 421, 706, 865), so
\* control goes straight to the finally clause. got: how far setup_browser
\* had come when the interrupt reached it.
Interrupt ==
    /\ pc \in {"start", "login", "hosts"}
    /\ interrupted' = TRUE
    /\ pc' = "finally"
    /\ IF pc = "start"
       THEN \E got \in {"nothing", "started", "launched"} :
               /\ playwright' = IF got = "nothing" THEN playwright ELSE "started"
               /\ browser' = IF got = "launched" THEN "open" ELSE browser
       ELSE UNCHANGED <<playwright, browser>>
    /\ UNCHANGED <<retry_config, hosts, page, close_calls, login_ok, host_log,
                   renewal_results, results, notifications, sink, sink_returns>>
    /\ UNCHANGED outside_run_vars

\* A close that is part of the try block: skipped on every early exit.
CloseDueOnCleanRun(b) == b # "None" /\ results.errors = <<>> /\ ~interrupted

\* `if self.browser:` (line 432)
CloseDue(b) == b # "None"

\* Lines 430-448: the finally clause. browser.close() either completes or
\* raises; when it raises, the rest of the clause is skipped and the
\* exception leaves run_renewal_process ("raised"). A run the interrupt
\* reached ends with the CancelledError leaving it after the clause
\* ("cancelled").
Finally ==
    /\ pc = "finally"
    /\ \E close_raises \in (IF CloseDue(browser) THEN BOOLEAN ELSE {FALSE}) :
          /\ close_calls' = IF CloseDue(browser) THEN close_calls + 1 ELSE close_calls
          /\ IF close_raises
             THEN /\ pc' = "raised"
                  /\ UNCHANGED <<browser, results, notifications, sink_returns>>
             ELSE /\ browser' = IF CloseDue(browser) THEN "closed" ELSE browser
                  /\ SendAndKeep(send_final_notification(results),
                                 [results EXCEPT !.end_time = TRUE])
                  /\ pc' = IF interrupted THEN "cancelled" ELSE "done"
    /\ UNCHANGED <<retry_config, hosts, playwright, page, login_ok, host_log,
                   renewal_results>>
    /\ UNCHANGED <<interrupted, sink>>
    /\ UNCHANGED outside_run_vars

\* ----------------------------------------------- monitor_renewal_schedule
\* `if days_since_last >= 25` (line 503)
RenewalIntervalDays == 25
\* asyncio.sleep(86400) (line 521), in hours
CheckSleepHours == 24
\* asyncio.sleep(3600) (line 525), in hours
ErrorSleepHours == 1

HoursPerDay == 24

\* The file last_renewal.txt: absent, holding the ISO timestamp of hour
\* `at`, or holding text datetime.fromisoformat rejects.
NoRecord == [kind |-> "absent", at |-> 0]

Record(at) == [kind |-> "valid", at |-> at]

BadRecord == [kind |-> "garbage", at |-> 0]

\* (now - last_run).days, for a record that is not in the future.
DaysSince(now, at) == (now - at) \div HoursPerDay

\* A threshold that lets the 25th day pass.
RunDueAfterInterval(days) == days > RenewalIntervalDays

\* `if days_since_last >= 25`
RunDue(days) == days >= RenewalIntervalDays

\* A recovery sleep as long as the nominal one.
SleepAfterErrorNominal == CheckSleepHours

\* `await asyncio.sleep(3600)` in the except clause
SleepAfterError == ErrorSleepHours

\* A scheduler that does not wait for the run it started.
RunAwaitedNever(p) == TRUE

\* `await self.run_renewal_process()` has come back: with the report, or
\* with an exception.
RunAwaited(p) == p \in {"done", "raised", "cancelled"}

NoCheck == [seen |-> "none", days |-> 0, ran |-> FALSE]

\* The sleep of d hours fits the clock of the model.
CanSleep(d) == clock + d <= MaxClockDays * HoursPerDay

\* The call of run_renewal_process (lines 342-357): a new report; the logs
\* of the model start anew; self.playwright, self.browser and self.page
\* are what the previous run left.
StartRun ==
    /\ pc' = "start"
    /\ interrupted' = FALSE
    /\ results' = EmptyResults
    /\ renewal_results' = <<>>
    /\ host_log' = <<>>
    /\ notifications' = <<>>
    /\ sink_returns' = <<>>
    /\ close_calls' = 0
    /\ login_ok' = "unset"
    /\ runs_started' = runs_started + 1
    /\ UNCHANGED <<playwright, browser, page, sink>>

\* Lines 489-525, one iteration up to its first await: `now` is taken, the
\* file is read, and the iteration either starts a run (no file, or 25 days
\* and more since the record), or sleeps 24 hours (fewer than 25 days), or,
\* fromisoformat having raised ValueError, sleeps 1 hour in the except clause.
SchedCheck ==
    /\ spc = "check"
    /\ iter_now' = clock
    /\ IF last_run.kind = "garbage"
       THEN /\ CanSleep(SleepAfterError)
            /\ last_check' = [seen |-> "garbage", days |-> 0, ran |-> FALSE]
            /\ clock' = clock + SleepAfterError
            /\ last_sleep' = SleepAfterError
            /\ UNCHANGED <<spc, runs_started, run_vars>>
       ELSE IF last_run.kind = "absent" \/ RunDue(DaysSince(clock, last_run.at))
       THEN /\ last_check' =
                  [seen |-> last_run.kind,
                   days |-> IF last_run.kind = "absent" THEN 0
                            ELSE DaysSince(clock, last_run.at),
                   ran |-> TRUE]
            /\ spc' = "running"
            /\ StartRun
            /\ UNCHANGED <<clock, last_sleep>>
       ELSE /\ CanSleep(CheckSleepHours)
            /\ last_check' = [seen |-> "valid",
                              days |-> DaysSince(clock, last_run.at),
                              ran |-> FALSE]
            /\ clock' = clock + CheckSleepHours
            /\ last_sleep' = CheckSleepHours
            /\ UNCHANGED <<spc, runs_started, run_vars>>
    /\ UNCHANGED <<retry_config, hosts, last_run>>
    /\ UNCHANGED outside_sched_vars

\* Lines 505-525, the rest of an iteration that started a run, once the run
\* has come back. With the report: the record is overwritten with `now` and
\* the loop sleeps 24 hours. With an Exception (browser.close() raised): the
\* except clause sleeps 1 hour and the record is left as it was. With the
\* CancelledError of an interrupt: the exception leaves the loop.
SchedAfterRun ==
    /\ spc = "running"
    /\ RunAwaited(pc)
    /\ IF pc = "cancelled"
       THEN /\ spc' = "stopped"
            /\ UNCHANGED <<clock, last_run, last_sleep>>
       ELSE IF pc = "raised"
       THEN /\ CanSleep(SleepAfterError)
            /\ spc' = "check"
            /\ clock' = clock + SleepAfterError
            /\ last_sleep' = SleepAfterError
            /\ UNCHANGED last_run
       ELSE /\ CanSleep(CheckSleepHours)
            /\ spc' = "check"
            /\ last_run' = Record(iter_now)
            /\ clock' = clock + CheckSleepHours
            /\ last_sleep' = CheckSleepHours
    /\ UNCHANGED <<retry_config, hosts, iter_now, last_check, runs_started>>
    /\ UNCHANGED run_vars
    /\ UNCHANGED outside_sched_vars

SchedIdle ==
    /\ spc = "off"
    /\ clock = 0
    /\ iter_now = 0
    /\ last_run = NoRecord
    /\ last_check = NoCheck
    /\ last_sleep = 0
    /\ runs_started = 0

RunIdle ==
    /\ interrupted = FALSE
    /\ playwright = "None"
    /\ browser = "None"
    /\ page = "None"
    /\ close_calls = 0
    /\ login_ok = "unset"
    /\ host_log = <<>>
    /\ renewal_results = <<>>
    /\ results = EmptyResults
    /\ notifications = <<>>
    /\ sink_returns = <<>>

RetryIdle ==
    /\ script = [i \in 1..(MaxRetries + 1) |-> "ok"]
    /\ op_script = [i \in 1..(MaxRetries + 1) |-> OkOp]
    /\ wrapped_log = <<>>
    /\ DelayIdle
    /\ rpc = "idle"
    /\ attempt = 0
    /\ invocations = 0
    /\ sleeps = <<>>
    /\ last_exception = NoException
    /\ outcome = [kind |-> "none", value |-> 0, exc |-> NoException]

InitRetry ==
    /\ retry_config \in [max_retries : 0..MaxRetries, jitter : BOOLEAN]
    /\ hosts = HostList(<<>>)
    /\ script \in [1..(MaxRetries + 1) -> FuncBehaviours]
    /\ op_script = [i \in 1..(MaxRetries + 1) |-> OkOp]
    /\ wrapped_log = <<>>
    /\ DelayIdle
    /\ rpc = "loop"
    /\ attempt = 0
    /\ invocations = 0
    /\ sleeps = <<>>
    /\ last_exception = NoException
    /\ outcome = [kind |-> "none", value |-> 0, exc |-> NoException]
    /\ pc = "idle"
    /\ RunIdle
    /\ sink = "disabled"
    /\ SchedIdle
    /\ LoginIdle
    /\ RenewIdle

NextRetry ==
    \/ RetryAttempt
    \/ RetryExhausted

SpecRetry == InitRetry /\ [][NextRetry]_vars

\* safe_page_operation is called, with self.page set or not; operation_func
\* does `first` on its first call and `later` on every later one.
InitSafe ==
    /\ retry_config \in [max_retries : 0..MaxRetries, jitter : BOOLEAN]
    /\ hosts = HostList(<<>>)
    /\ script = [i \in 1..(MaxRetries + 1) |-> "ok"]
    /\ \E first \in OpBehaviours, later \in OpBehaviours :
          op_script = [i \in 1..(MaxRetries + 1) |-> IF i = 1 THEN first ELSE later]
    /\ wrapped_log = <<>>
    /\ DelayIdle
    /\ rpc = "loop"
    /\ attempt = 0
    /\ invocations = 0
    /\ sleeps = <<>>
    /\ last_exception = NoException
    /\ outcome = [kind |-> "none", value |-> 0, exc |-> NoException]
    /\ pc = "idle"
    /\ interrupted = FALSE
    /\ playwright \in {"None", "started"}
    /\ browser = IF playwright = "started" THEN "open" ELSE "None"
    /\ page = browser
    /\ close_calls = 0
    /\ login_ok = "unset"
    /\ host_log = <<>>
    /\ renewal_results = <<>>
    /\ results = EmptyResults
    /\ notifications = <<>>
    /\ sink_returns = <<>>
    /\ sink = "disabled"
    /\ SchedIdle
    /\ LoginIdle
    /\ RenewIdle

NextSafe ==
    \/ SafeAttempt
    \/ RetryExhausted

SpecSafe == InitSafe /\ [][NextSafe]_vars

\* The retry configurations calculate_retry_delay is called under: delays
\* in milliseconds, base_delay > 0, max_delay >= base_delay,
\* exponential_base > 1.
Policies ==
    {pol \in [base_delay : {1, 1000, 2000}, max_delay : {1000, 60000},
              exponential_base : {2, 10}, jitter : BOOLEAN] :
        pol.max_delay >= pol.base_delay}

InitDelay ==
    /\ retry_config = [max_retries |-> MaxRetries, jitter |-> TRUE]
    /\ hosts = HostList(<<>>)
    /\ script = [i \in 1..(MaxRetries + 1) |-> "ok"]
    /\ op_script = [i \in 1..(MaxRetries + 1) |-> OkOp]
    /\ wrapped_log = <<>>
    /\ rpc = "idle"
    /\ attempt = 0
    /\ invocations = 0
    /\ sleeps = <<>>
    /\ last_exception = NoException
    /\ outcome = [kind |-> "none", value |-> 0, exc |-> NoException]
    /\ pc = "idle"
    /\ RunIdle
    /\ sink = "disabled"
    /\ SchedIdle
    /\ LoginIdle
    /\ RenewIdle
    /\ dpc = "calls"
    /\ policy \in Policies
    /\ d_att = 0
    /\ d_last = NoResult
    /\ d_prev = NoResult

NextDelay == DelayCall

SpecDelay == InitDelay /\ [][NextDelay]_vars

Init ==
    /\ retry_config \in [max_retries : 0..MaxRetries, jitter : {TRUE}]
    /\ hosts \in {HostList(h) : h \in SeqsUpTo(HostNames, MaxHosts)} \cup {NotIterable}
    /\ RetryIdle
    /\ pc = "start"
    /\ RunIdle
    /\ sink \in SinkConfigs
    /\ SchedIdle
    /\ LoginIdle
    /\ RenewIdle

Next ==
    \/ SetupBrowser
    \/ Login
    \/ GeneralError
    \/ RenewHost
    \/ ProcessResults
    \/ Interrupt
    \/ Finally

Spec == Init /\ [][Next]_vars

\* The hosts lists the scheduler is run with.
SchedHosts == {HostList(<<>>), HostList(<<"hostA", "hostB">>), NotIterable}

\* The hour the scheduler is started at, the record (if any) being of hour 0.
StartHours == {0, RenewalIntervalDays * HoursPerDay - 1,
               RenewalIntervalDays * HoursPerDay}

\* monitor_renewal_schedule is entered (line 484): no run was made yet by
\* this process, the file is whatever an earlier process left.
InitSched ==
    /\ retry_config = [max_retries |-> MaxRetries, jitter |-> TRUE]
    /\ hosts \in SchedHosts
    /\ RetryIdle
    /\ pc = "idle"
    /\ RunIdle
    /\ sink = "disabled"
    /\ spc = "check"
    /\ clock \in StartHours
    /\ iter_now = 0
    /\ last_run \in {NoRecord, Record(0), BadRecord}
    /\ last_check = NoCheck
    /\ last_sleep = 0
    /\ runs_started = 0
    /\ LoginIdle
    /\ RenewIdle

NextSched ==
    \/ SchedCheck
    \/ SchedAfterRun
    \/ SetupBrowser
    \/ Login
    \/ GeneralError
    \/ RenewHost
    \/ ProcessResults
    \/ Interrupt
    \/ Finally

SpecSched == InitSched /\ [][NextSched]_vars

\* ------------------------------------------- the scheduler, run for ever
\* The loop reads the clock only through (now - last_run).days (line 501)
\* and compares it with 25 (line 503). Between two iterations the hour of
\* the record is renamed hour 0, an age beyond the 25 days is held at the
\* 25 days, and with no readable record the clock is set back to hour 0;
\* the count of runs is forgotten. The loop then runs for ever within the
\* clock of the model.
ShiftedClock ==
    LET age == IF last_run.kind = "valid" THEN clock - last_run.at ELSE 0
        cap == RenewalIntervalDays * HoursPerDay
    IN  IF age > cap THEN cap ELSE age

Shifted ==
    /\ last_run.at = 0
    /\ clock = ShiftedClock
    /\ iter_now = 0
    /\ runs_started = 0

ShiftEpoch ==
    /\ spc = "check"
    /\ ~Shifted
    /\ clock' = ShiftedClock
    /\ last_run' = IF last_run.kind = "valid" THEN Record(0) ELSE last_run
    /\ iter_now' = 0
    /\ runs_started' = 0
    /\ UNCHANGED <<retry_config, hosts, spc, last_check, last_sleep>>
    /\ UNCHANGED run_vars
    /\ UNCHANGED outside_sched_vars

\* An iteration of the loop (lines 489-525), begun at the shifted clock.
SchedCheckShifted == Shifted /\ SchedCheck

\* The hosts lists the scheduler is run for ever with.
LiveHosts == {HostList(<<"hostA">>), NotIterable}

\* monitor_renewal_schedule is entered with the file absent, holding a
\* timestamp, or holding text that is no timestamp.
InitLive ==
    /\ retry_config = [max_retries |-> MaxRetries, jitter |-> TRUE]
    /\ hosts \in LiveHosts
    /\ RetryIdle
    /\ pc = "idle"
    /\ RunIdle
    /\ sink = "disabled"
    /\ spc = "check"
    /\ clock = 0
    /\ iter_now = 0
    /\ last_run \in {NoRecord, Record(0), BadRecord}
    /\ last_check = NoCheck
    /\ last_sleep = 0
    /\ runs_started = 0
    /\ LoginIdle
    /\ RenewIdle

\* The loop with no interrupt from outside.
NextLive ==
    \/ SchedCheckShifted
    \/ SchedAfterRun
    \/ ShiftEpoch
    \/ SetupBrowser
    \/ Login
    \/ GeneralError
    \/ RenewHost
    \/ ProcessResults
    \/ Finally

\* The event loop resumes the one task whenever it can go on: every sleep
\* returns and every awaited call comes back.
SpecLive == InitLive /\ [][NextLive]_vars /\ WF_vars(NextLive)

\* The hosts lists the login is followed by.
LoginHosts == {HostList(<<>>), HostList(<<"hostA">>), NotIterable}

\* run_renewal_process at line 368: setup_browser has returned True and
\* login_to_noip is entered.
InitLogin ==
    /\ retry_config = [max_retries |-> MaxRetries, jitter |-> TRUE]
    /\ hosts \in LoginHosts
    /\ RetryIdle
    /\ interrupted = FALSE
    /\ playwright = "started"
    /\ browser = "open"
    /\ page = "open"
    /\ close_calls = 0
    /\ login_ok = "unset"
    /\ host_log = <<>>
    /\ renewal_results = <<>>
    /\ results = EmptyResults
    /\ notifications = <<>>
    /\ sink_returns = <<>>
    /\ sink = "disabled"
    /\ pc = "login"
    /\ SchedIdle
    /\ lpc = "entry"
    /\ challenge = "none"
    /\ poll_i = 0
    /\ waited = 0
    /\ totp_secret \in BOOLEAN
    /\ content = NoContent
    /\ auto = "none"
    /\ RenewIdle

NextLogin ==
    \/ LoginSubmit
    \/ LoginPoll
    \/ LoginTimeout
    \/ GeneralError
    \/ RenewHost
    \/ ProcessResults
    \/ Interrupt
    \/ Finally

SpecLogin == InitLogin /\ [][NextLogin]_vars

\* _renew_single_host is called with self.page set or not, on any view.
InitRenew ==
    /\ retry_config = [max_retries |-> MaxRetries, jitter |-> TRUE]
    /\ hosts = HostList(<<"hostA">>)
    /\ RetryIdle
    /\ interrupted = FALSE
    /\ playwright \in {"None", "started"}
    /\ browser = IF playwright = "started" THEN "open" ELSE "None"
    /\ page = browser
    /\ close_calls = 0
    /\ login_ok = "unset"
    /\ host_log = <<>>
    /\ renewal_results = <<>>
    /\ results = EmptyResults
    /\ notifications = <<>>
    /\ sink_returns = <<>>
    /\ sink = "disabled"
    /\ pc = "idle"
    /\ SchedIdle
    /\ LoginIdle
    /\ vpc = "call"
    /\ view \in Views
    /\ ret = NoRet

NextRenew == RenewCall

SpecRenew == InitRenew /\ [][NextRenew]_vars

\* ================================================================ claims
\* ---------------------------------------------------- retry_with_backoff
RetryTerminated == rpc \in {"returned", "raised"}

\* The loop fell through: every attempt of the budget was made and failed.
BudgetExhausted == rpc = "raised" /\ attempt >= retry_config.max_retries

\* func fails retryably on its first k invocations.
FailsRetryablyFor(k) == \A i \in 1..k : script[i] \in RetryableClasses

\* C3: once an invocation of func raises NonRetryableError, func is never
\* invoked again, whatever budget remains: that invocation is the last one,
\* the call has raised that very error, and no backoff wait follows the
\* failure (the waits made are those of the retryable failures before it);
\* when the first invocation is the NonRetryable one, exactly 1 invocation
\* occurs and nothing is waited for.
C3_NoRetryAfterNonRetryable ==
    /\ \A i \in 1..invocations :
          script[i] = "NonRetryableError" =>
             /\ invocations = i
             /\ rpc = "raised"
             /\ outcome.kind = "raise"
             /\ outcome.exc = Raised("NonRetryableError", i)
             /\ Len(sleeps) = i - 1
    /\ (script[1] = "NonRetryableError" /\ retry_config.max_retries >= 1
            /\ RetryTerminated)
          => (invocations = 1 /\ sleeps = <<>>)

\* C3 witness: the second invocation raised NonRetryableError while one
\* more attempt was still in the budget.
C3_Witness ==
    /\ rpc = "raised"
    /\ invocations = 2
    /\ script[2] = "NonRetryableError"
    /\ retry_config.max_retries = 3

C5_Inv ==
    (retry_config.max_retries >= 1 /\ FailsRetryablyFor(retry_config.max_retries))
      => /\ invocations <= retry_config.max_retries
         /\ rpc # "returned"
         /\ outcome.kind # "return"
         /\ (rpc = "loop" =>
                /\ attempt = invocations
                /\ ENABLED (RetryAttempt \/ RetryExhausted))
         /\ (rpc = "raised" =>
                /\ invocations = retry_config.max_retries
                /\ outcome.kind = "raise")

C5_Progress ==
    (rpc = "loop" /\ retry_config.max_retries >= 1
        /\ FailsRetryablyFor(retry_config.max_retries))
      => \/ (rpc' = "loop" /\ invocations' = invocations + 1
                /\ attempt' = attempt + 1)
         \/ (rpc' = "raised" /\ invocations' = invocations)

RunEnded == pc \in {"done", "raised", "cancelled"}

\* The for loop over the hosts is behind the run.
HostsLoopDone ==
    /\ pc \in {"finally", "done", "raised"}
    /\ ~interrupted
    /\ login_ok = "True"
    /\ hosts.iterable

\* An outcome other than Success and NoRenewalNeeded.
Failing(st) == st \notin {SUCCESS, NO_RENEWAL_NEEDED}

\* The outcome of the i-th configured entry: the status of its last call.
CallsOf(i) == {j \in 1..Len(host_log) : host_log[j].entry = i}

OutcomeOf(i) ==
    host_log[CHOOSE j \in CallsOf(i) : \A k \in CallsOf(i) : k <= j].status

SomeHostSucceeded == \E j \in 1..Len(host_log) : host_log[j].status = SUCCESS

SomeHostFailing == \E j \in 1..Len(host_log) : Failing(host_log[j].status)

Elements(seq) == {seq[i] : i \in 1..Len(seq)}

\* C1: when a run that no interrupt cut short is over, the report's success flag is true exactly when
\* some call of _renew_single_host ended Success and none ended with a
\* failing outcome; a run that recorded an error (browser setup failed,
\* login failed, general error) has the flag false.
C1_SuccessFlag ==
    (RunEnded /\ ~interrupted) =>
        /\ results.success <=> (SomeHostSucceeded /\ ~SomeHostFailing)
        /\ (results.errors # <<>> => ~results.success)

\* C1 witness: a finished run with the flag true, in which one host was
\* renewed and another needed no renewal.
C1_Witness ==
    /\ pc = "done"
    /\ results.success
    /\ Len(host_log) = 2
    /\ host_log[1].status = NO_RENEWAL_NEEDED
    /\ host_log[2].status = SUCCESS

\* The hosts of the calls that ended with a status satisfying Test, in order.
HostsWhere(Test(_)) ==
    LET sel == SelectSeq(host_log, LAMBDA e : Test(e.status))
    IN  [i \in 1..Len(sel) |-> sel[i].host]

FailedWhere ==
    LET sel == SelectSeq(host_log, LAMBDA e : Failing(e.status))
    IN  [i \in 1..Len(sel) |-> [host |-> sel[i].host, status |-> sel[i].status]]

IsSuccess(st) == st = SUCCESS

EntriesOf(h) == {i \in 1..Len(hosts.items) : hosts.items[i] = h}

\* C2: in the report of a run whose login succeeded and that no interrupt
\* cut short, every configured entry
\* was called once and is placed by its outcome: hosts_renewed lists, in
\* order, exactly the entries that ended Success, hosts_failed exactly the
\* entries that ended with a failing outcome, each with that outcome, and an
\* entry that ended NoRenewalNeeded adds to neither list. So a host name is
\* in hosts_renewed iff an entry of it ended Success, in hosts_failed iff an
\* entry of it ended failing, in neither when its entries ended
\* NoRenewalNeeded, and a host configured once is never in both.
C2_Placement ==
    (RunEnded /\ ~interrupted /\ login_ok = "True" /\ hosts.iterable) =>
        /\ Len(host_log) = Len(hosts.items)
        /\ results.hosts_renewed = HostsWhere(IsSuccess)
        /\ results.hosts_failed = FailedWhere
        /\ \A h \in HostNames :
              LET renewed == h \in Elements(results.hosts_renewed)
                  failed == \E f \in Elements(results.hosts_failed) : f.host = h
              IN  /\ renewed <=> \E i \in EntriesOf(h) : OutcomeOf(i) = SUCCESS
                  /\ failed <=> \E i \in EntriesOf(h) : Failing(OutcomeOf(i))
                  /\ (\A i \in EntriesOf(h) : OutcomeOf(i) = NO_RENEWAL_NEEDED)
                        => (~renewed /\ ~failed)
                  /\ Cardinality(EntriesOf(h)) = 1 => ~(renewed /\ failed)

\* C2 witness: a finished run over two hosts, one ended NoRenewalNeeded and
\* is in neither list, the other ended RetryNeeded and is in hosts_failed.
C2_Witness ==
    /\ pc = "done"
    /\ hosts = HostList(<<"hostA", "hostB">>)
    /\ Len(host_log) = 2
    /\ host_log[1].status = NO_RENEWAL_NEEDED
    /\ host_log[2].status = RETRY_NEEDED
    /\ results.hosts_renewed = <<>>
    /\ results.hosts_failed = <<[host |-> "hostB", status |-> RETRY_NEEDED]>>

\* C7 as stated: a host whose attempt ends RetryNeeded while fewer than
\* max_retries attempts were made for it is attempted again, so a host whose
\* final outcome is RetryNeeded has had max_retries attempts; and RetryNeeded
\* is never recorded as a success.
C7_Original ==
    HostsLoopDone =>
        \A i \in 1..Len(hosts.items) :
            OutcomeOf(i) = RETRY_NEEDED =>
                /\ Cardinality(CallsOf(i)) >= retry_config.max_retries
                /\ hosts.items[i] \notin Elements(results.hosts_renewed)
                      \/ \E k \in EntriesOf(hosts.items[i]) : OutcomeOf(k) = SUCCESS

\* C8: once login has succeeded, the calls of _renew_single_host follow the
\* configuration order, one entry after the other, whatever the earlier
\* calls returned; when the loop is over (no interrupt having cut it short)
\* every configured entry was attempted, and a run that returns hands back a finished report that
\* accounts for every entry.
C8_AllHostsAttempted ==
    /\ (login_ok = "True" /\ hosts.iterable) =>
          /\ Len(host_log) <= Len(hosts.items)
          /\ \A j \in 1..Len(host_log) :
                host_log[j].entry = j /\ host_log[j].host = hosts.items[j]
    /\ HostsLoopDone =>
          /\ Len(host_log) = Len(hosts.items)
          /\ renewal_results =
                [j \in 1..Len(host_log) |->
                    [host |-> host_log[j].host, status |-> host_log[j].status]]
    /\ (HostsLoopDone /\ pc = "done") =>
          /\ results.end_time
          /\ Len(results.hosts_renewed) + Len(results.hosts_failed)
                + Cardinality({j \in 1..Len(host_log) :
                                 host_log[j].status = NO_RENEWAL_NEEDED})
               = Len(hosts.items)

\* C8 witness: the first host ended Failed, the second was still attempted
\* and renewed, and the run returned its report.
C8_Witness ==
    /\ pc = "done"
    /\ Len(host_log) = 2
    /\ host_log[1].status = FAILED
    /\ host_log[2].status = SUCCESS
    /\ results.hosts_renewed = <<host_log[2].host>>

\* C9: when login_to_noip returns False, no host renewal is attempted then
\* or later, "Login failed" is in the report's errors, a notification was
\* handed over, hosts_renewed and hosts_failed are empty and the flag is
\* false; when the run is over the finally clause has called
\* browser.close(), and in a run that returned the browser is closed.
C9_LoginFailureAborts ==
    login_ok = "False" =>
        /\ host_log = <<>>
        /\ renewal_results = <<>>
        /\ pc \in {"finally", "done", "raised"}
        /\ ~interrupted
        /\ "Login failed" \in Elements(results.errors)
        /\ Notification("No-IP Login Error", "high") \in Elements(notifications)
        /\ results.hosts_renewed = <<>>
        /\ results.hosts_failed = <<>>
        /\ ~results.success
        /\ (RunEnded => close_calls = 1)
        /\ (pc = "done" => browser = "closed")

\* C9 witness: login failed and the run returned, the browser closed.
C9_Witness ==
    /\ login_ok = "False"
    /\ pc = "done"
    /\ browser = "closed"
    /\ Len(notifications) >= 1

\* The report has something to tell.
SomethingToReport ==
    \/ results.hosts_renewed # <<>>
    \/ results.hosts_failed # <<>>
    \/ results.errors # <<>>

\* C10 as stated: a run that returns with something to report has handed
\* exactly one notification to send_notification.
C10_Original ==
    (pc = "done" /\ SomethingToReport) => Len(notifications) = 1

\* The notifications send_final_notification handed over.
FinalNotifications ==
    SelectSeq(notifications,
              LAMBDA n : n.subject \in {"No-IP Renewal Completed",
                                        "No-IP Renewal Failed"})

\* C11 as stated: when a run is over, its final notification step handed
\* nothing to send_notification exactly when the report has no renewed
\* host, no failed host and no error; in every other case it handed the
\* report over.
C11_Original ==
    RunEnded => (FinalNotifications = <<>> <=> ~SomethingToReport)

RunStarts ==
    /\ runs_started' = runs_started + 1
    /\ spc' = "running"
    /\ pc' = "start"
    /\ clock' = clock

\* A check of the scheduler starts no run and sleeps 24 hours.
NoRunAndDailySleep ==
    /\ runs_started' = runs_started
    /\ spc' = "check"
    /\ pc' = pc
    /\ clock' = clock + CheckSleepHours

\* Whole days between the record and the clock.
DaysOnRecord == (clock - last_run.at) \div HoursPerDay

\* C13: a check of the scheduler that finds no timestamp record starts a
\* run; one that finds a record of 25 days ago or more starts a run; one
\* that finds a record of fewer than 25 days ago starts no run and sleeps
\* 24 hours.
C13_CheckDecision ==
    [][spc = "check" =>
          /\ (last_run.kind = "absent" => RunStarts)
          /\ (last_run.kind = "valid" /\ DaysOnRecord >= RenewalIntervalDays
                => RunStarts)
          /\ (last_run.kind = "valid" /\ DaysOnRecord < RenewalIntervalDays
                => NoRunAndDailySleep)]_vars

\* A check found a record of exactly 25 days ago and started a run, after
\* a check that found it younger and slept.
C13_Witness ==
    /\ spc = "running"
    /\ last_check = [seen |-> "valid", days |-> RenewalIntervalDays, ran |-> TRUE]
    /\ last_sleep = CheckSleepHours
    /\ runs_started = 1

\* ---------------------------------------------------------------- C14
\* C14 as stated: the record changes only in an iteration that executed a
\* run; an iteration without a run leaves it as it was; every iteration
\* that executed a run and goes on to the next check has overwritten the
\* record with the time of the iteration.
C14_Original ==
    [][/\ (last_run' # last_run => spc = "running" /\ RunAwaited(pc))
       /\ (spc = "check" /\ spc' = "check" => last_run' = last_run)
       /\ (spc = "running" /\ spc' = "check" => last_run' = Record(iter_now))]_vars

\* ---------------------------------------------------------------- C15
\* The loop body has raised an Exception: the record is not a timestamp, or
\* the run came back with an exception.
LoopBodyRaised ==
    \/ spc = "check" /\ last_run.kind = "garbage"
    \/ spc = "running" /\ pc = "raised"

\* C15: an unexpected error in the loop body never ends the loop: the step
\* that absorbs it sleeps 1 hour, not 24, and leaves the scheduler at its
\* next check; the loop is left only by an interrupt.
C15_ErrorAbsorbed ==
    /\ [](spc = "stopped" => interrupted)
    /\ [][LoopBodyRaised =>
             /\ spc' = "check"
             /\ clock' = clock + ErrorSleepHours
             /\ last_sleep' = ErrorSleepHours
             /\ last_run' = last_run]_vars

\* The first run came back with an exception, the loop slept one hour,
\* checked again and started the second run.
C15_Witness ==
    /\ runs_started = 2
    /\ spc = "running"
    /\ iter_now = ErrorSleepHours
    /\ last_sleep = ErrorSleepHours

\* ---------------------------------------------------------------- C16
\* A run is executing.
RunInFlight == pc \in {"start", "login", "hosts", "finally"}

\* C16: under the scheduler at most one run is in flight: the scheduler is
\* at a check (or has left the loop) only when no run is executing, so a run
\* starts only after the previous one has come back; and within a run the
\* calls of _renew_single_host are in the order of the list, each made when
\* every earlier one has produced its outcome.
C16_OneAtATime ==
    /\ spc \in {"check", "stopped"} => ~RunInFlight
    /\ RunInFlight => spc = "running"
    /\ Len(renewal_results) = Len(host_log)
    /\ \A j \in 1..Len(host_log) :
          /\ host_log[j].entry = j
          /\ renewal_results[j].status = host_log[j].status

\* The second run of the scheduler has renewed its second host.
C16_Witness ==
    /\ runs_started = 2
    /\ spc = "running"
    /\ pc = "hosts"
    /\ Len(host_log) = 2

\* ---------------------------------------------------------------- C17
\* The deadline and the polling period the claim states for a verification.
StatedDeadline(ch) == IF ch = "email" THEN 300 ELSE 180

StatedPeriod(ch) == IF ch = "totp" THEN 5 ELSE 10

\* C17: a wait loop of login_to_noip never sleeps more than 180 s (TOTP),
\* 300 s (email code) or 180 s (generic challenge) in all, in sleeps of 5 s,
\* 10 s and 10 s; when the loop ends without having seen an authenticated
\* url the login returns False after exactly that wait, and the run records
\* "Login failed", goes to its finally clause without a second login and
\* without any host attempted.
C17_PollBounded ==
    /\ challenge \in Challenges =>
          /\ waited <= StatedDeadline(challenge)
          /\ waited % StatedPeriod(challenge) = 0
          /\ (lpc = "poll" => waited = poll_i)
    /\ lpc = "timeout" =>
          /\ waited = StatedDeadline(challenge)
          /\ login_ok = "False"
          /\ pc \in {"finally", "done", "raised"}
          /\ results.errors = <<"Login failed">>
          /\ host_log = <<>>

\* The email wait loop ran to its deadline and the run ended.
C17_Witness ==
    /\ lpc = "timeout"
    /\ challenge = "email"
    /\ waited = 300
    /\ pc = "done"

\* ---------------------------------------------------------------- C18
\* The view holds no renewal control of any kind, at any time of the call.
NoControl(v) == ~v.btn_first /\ ~v.row_btn /\ ~v.page_btn /\ ~v.ext_btn

\* Some selector finds the host's entry.
Located(v) == v.row \/ v.elem \/ v.ci \/ v.partial

\* The call was made with a page and no page interaction raised.
CleanCall == vpc = "returned" /\ page # "None" /\ view.raise_at = "none"

\* C18 as stated: on a view without any renewal control the call returns
\* NoRenewalNeeded for every host, located or not, and clicks nothing.
C18_Original ==
    (CleanCall /\ NoControl(view)) =>
        ret = Ret(NO_RENEWAL_NEEDED, 0)

\* C18, amended: on a view without any renewal control the call clicks
\* nothing; it returns NoRenewalNeeded when some selector finds the host's
\* entry, and Failed when none does.
C18_NoControl ==
    /\ (vpc = "returned" /\ NoControl(view)) => ret.clicks = 0
    /\ (CleanCall /\ NoControl(view) /\ Located(view)) =>
          ret = Ret(NO_RENEWAL_NEEDED, 0)
    /\ (CleanCall /\ NoControl(view) /\ ~Located(view)) =>
          ret = Ret(FAILED, 0)

\* A call on a view without controls found the host by the partial match
\* only and returned.
C18_Witness ==
    /\ CleanCall
    /\ NoControl(view)
    /\ ~view.row /\ ~view.elem /\ ~view.ci /\ view.partial
    /\ ret = Ret(NO_RENEWAL_NEEDED, 0)

\* ---------------------------------------------------------------- C19
\* C19 as stated: a call that clicked a control and met no interaction
\* failure returns Success when the content holds a success phrase and
\* RetryNeeded when it holds none; Success is never returned without a
\* click.
C19_Original ==
    /\ (CleanCall /\ ret.clicks >= 1) =>
          ret.status = (IF view.phrase THEN SUCCESS ELSE RETRY_NEEDED)
    /\ (vpc = "returned" /\ ret.status = SUCCESS) => ret.clicks >= 1

\* ---------------------------------------------------------------- C20
\* The run has ended, its login succeeded and each configured host was
\* attempted and ended NO_RENEWAL_NEEDED (no host at all included).
QuietRun ==
    /\ RunEnded
    /\ login_ok = "True"
    /\ hosts.iterable
    /\ Len(host_log) = Len(hosts.items)
    /\ \A j \in 1..Len(host_log) : host_log[j].status = NO_RENEWAL_NEEDED

\* C20: a run whose login succeeds and whose hosts all end NoRenewalNeeded,
\* the run with no host included, ends with empty hosts_renewed,
\* hosts_failed and errors, with success false, and has sent no
\* notification at all.
C20_QuietRun ==
    QuietRun =>
        /\ results.hosts_renewed = <<>>
        /\ results.hosts_failed = <<>>
        /\ results.errors = <<>>
        /\ results.success = FALSE
        /\ notifications = <<>>

\* A run of two hosts, both NO_RENEWAL_NEEDED, has ended normally.
C20_Witness ==
    /\ QuietRun
    /\ pc = "done"
    /\ Len(host_log) = MaxHosts
    /\ notifications = <<>>

\* ---------------------------------------------------------------- C21
\* The run of hostA and hostB has ended without an interrupt, hostA having
\* ended SUCCESS and hostB FAILED.
OneRenewedOneFailed ==
    /\ RunEnded
    /\ ~interrupted
    /\ login_ok = "True"
    /\ hosts = HostList(<<"hostA", "hostB">>)
    /\ Len(host_log) = 2
    /\ OutcomeOf(1) = SUCCESS
    /\ OutcomeOf(2) = FAILED

\* C21 as stated: in a run of two hosts where hostA ends Success and hostB
\* ends Failed, the report has hosts_renewed = [hostA], hosts_failed =
\* [hostB, Failed], success false, and exactly one notification was sent,
\* of priority high.
C21_Original ==
    OneRenewedOneFailed =>
        /\ results.hosts_renewed = <<"hostA">>
        /\ results.hosts_failed = <<[host |-> "hostB", status |-> FAILED]>>
        /\ results.success = FALSE
        /\ Len(notifications) = 1
        /\ notifications[1].priority = "high"

\* ---------------------------------------------------------------- C22
\* C22: when the page asks for a TOTP code, a secret is configured and the
\* generated code is accepted, login_to_noip returns True without one
\* iteration of the wait loop: nothing was slept in it and its loop
\* variable was never set.
C22_AutoTotpSkipsPolling ==
    (content.totp_kw /\ totp_secret /\ auto = "accepted") =>
        /\ lpc = "auto_totp"
        /\ login_ok = "True"
        /\ waited = 0
        /\ poll_i = 0
        /\ pc # "login"

\* The code was accepted and the run went on to renew a host.
C22_Witness ==
    /\ totp_secret
    /\ auto = "accepted"
    /\ login_ok = "True"
    /\ Len(host_log) = 1
    /\ pc = "done"

\* ---------------------------------------------------------------- C27
\* The automatic entry of the TOTP branch did not end in an authenticated
\* url.
AutoEntryFailed ==
    auto \in {"no_secret", "no_code", "no_input", "no_submit", "rejected", "raised"}

\* C27: in the TOTP branch, an automatic entry that does not end in an
\* authenticated url never ends the login: the wait loop is entered, it
\* polls every 5 seconds for 180 seconds at most, the login is True as soon
\* as a poll sees an authenticated url, and it is False only after the 180
\* seconds or when a poll itself raises.
C27_FallsBackToPolling ==
    AutoEntryFailed =>
        /\ challenge = "totp"
        /\ lpc \in {"poll", "verified", "timeout", "raises"}
        /\ waited <= 180
        /\ waited % 5 = 0
        /\ (lpc = "poll" => login_ok = "unset")
        /\ (lpc = "verified" => login_ok = "True" /\ waited >= 5)
        /\ (lpc = "timeout" => login_ok = "False" /\ waited = 180)
        /\ (lpc = "raises" => login_ok = "False" /\ waited >= 5)

\* The submitted code was rejected and the last poll of the wait loop saw
\* an authenticated url.
C27_Witness ==
    /\ auto = "rejected"
    /\ lpc = "verified"
    /\ waited = 180
    /\ login_ok = "True"

\* ---------------------------------------------------------------- C28
\* The content was read and found to ask for a verification.
ChallengeSeen == lpc # "entry" /\ content # NoContent /\ challenge # "none"

\* C28 as stated: a content with a TOTP keyword is Totp; otherwise a
\* content that speaks of an email and a code or verification is EmailCode;
\* every other content that asks for a verification is GenericChallenge;
\* and the wait loop entered is the one of that kind.
C28_Original ==
    ChallengeSeen =>
        /\ challenge = (IF content.totp_kw THEN "totp"
                        ELSE IF content.email_text \/ content.email_lit THEN "email"
                        ELSE "generic")
        /\ waited <= (IF challenge = "email" THEN 300 ELSE 180)

\* ---------------------------------------------------------------- C23
\* The i-th call of wrapped_operation reached operation_func, which raised.
OpRaisedAt(i) ==
    /\ i <= Len(wrapped_log)
    /\ page # "None"
    /\ op_script[i].cls # "ok"

\* C23: the error of operation_func is classified by its message, first
\* match first: network keywords make it Retryable as a network error even
\* when authorization keywords are present too; else element keywords make
\* it Retryable as element-not-found; else authorization keywords make it
\* NonRetryable; a message with none of the keywords is Retryable.
C23_Precedence ==
    \A i \in 1..(MaxRetries + 1) :
        OpRaisedAt(i) =>
            LET m == op_script[i].msg
                w == wrapped_log[i]
            IN  /\ m.net => w = Wrapped("RetryableError", "Network error")
                /\ (~m.net /\ m.elem) =>
                      w = Wrapped("RetryableError", "Element not found")
                /\ (~m.net /\ ~m.elem /\ m.auth) =>
                      w = Wrapped("NonRetryableError", "Authorization error")
                /\ (~m.net /\ ~m.elem /\ ~m.auth) =>
                      w = Wrapped("RetryableError", "Generic error")

\* A message with a network and an authorization keyword was classified
\* as a network error and the operation was invoked again.
C23_Witness ==
    /\ OpRaisedAt(2)
    /\ op_script[1].msg = [net |-> TRUE, elem |-> FALSE, auth |-> TRUE]
    /\ wrapped_log[1] = Wrapped("RetryableError", "Network error")
    /\ invocations = 2

\* ---------------------------------------------------------------- C30
\* The first call of wrapped_operation met a failure that is NonRetryable
\* from the start: no page, or a NonRetryableError raised by operation_func.
NonRetryableAtFirst ==
    /\ invocations >= 1
    /\ (page = "None" \/ op_script[1].cls = "NonRetryableError")

\* C30 as stated: a failure that is NonRetryable from the start leaves
\* safe_page_operation as a NonRetryableError after exactly one invocation
\* and without any backoff sleep.
C30_Original ==
    NonRetryableAtFirst =>
        /\ wrapped_log[1].cls = "NonRetryableError"
        /\ rpc = "raised"
        /\ outcome.exc.cls = "NonRetryableError"
        /\ invocations = 1
        /\ sleeps = <<>>

\* ---------------------------------------------------------------- C29
\* C29 as stated: when the navigation or the search for the host raises,
\* _renew_single_host hands the error to its caller as a raised error and
\* not as a status.
C29_Original ==
    (vpc = "returned" /\ page # "None" /\ view.raise_at \in {"navigate", "locate"}) =>
        ret.status \notin {SUCCESS, FAILED, RETRY_NEEDED, NO_RENEWAL_NEEDED}

\* ---------------------------------------------------------------- C24
\* C24 as stated: under every valid retry configuration and for every
\* attempt index, calculate_retry_delay returns a delay d with
\* 0 <= d <= 1.1 * max_delay; without jitter d is
\* min(base_delay * exponential_base^attempt, max_delay), and no smaller
\* than the delay of the attempt before.
C24_Original ==
    d_att >= 1 =>
        /\ d_last.kind = "return"
        /\ 0 <= d_last.d
        /\ 10 * d_last.d <= 11 * policy.max_delay
        /\ ~policy.jitter =>
              /\ d_last.d = Min(policy.base_delay
                                  * Pow(policy.exponential_base, d_att - 1),
                                policy.max_delay)
              /\ (d_att >= 2 => d_prev.kind = "return" /\ d_prev.d <= d_last.d)

\* ---------------------------------------------------------------- C26
\* The step hands a notification to send_notification, which returns False.
NotifyFails ==
    /\ Len(sink_returns') = Len(sink_returns) + 1
    /\ sink_returns'[Len(sink_returns')] = FALSE

\* C26: a step whose notification fails raises nothing and leaves the
\* report as the same step with a delivered notification leaves it:
\* hosts_renewed, hosts_failed and success as they were, errors as they
\* were but for the entry the early returns add before they notify. A run
\* ends with an exception only when browser.close() raised, before any
\* final notification; every other run returns its report.
C26_SinkFailureHarmless ==
    /\ [][NotifyFails =>
             /\ pc' \in {"finally", "done", "cancelled"}
             /\ results'.hosts_renewed = results.hosts_renewed
             /\ results'.hosts_failed = results.hosts_failed
             /\ results'.success = results.success
             /\ \/ results'.errors = results.errors
                \/ /\ pc # "finally"
                   /\ Len(results'.errors) = Len(results.errors) + 1
                   /\ results'.errors[Len(results'.errors)] \in
                         {"Unable to initialize browser", "Login failed",
                          "General error in renewal process"}]_vars
    /\ [](pc = "raised" => browser = "open" /\ close_calls = 1)

\* A run renewed hostA, its final notification failed, and it returned the
\* report with success True.
C26_Witness ==
    /\ pc = "done"
    /\ sink_returns = <<FALSE>>
    /\ results.success
    /\ results.hosts_renewed = <<"hostA">>
    /\ results.errors = <<>>

\* ---------------------------------------------------------------- C25
\* What the try block of a run works on.
RunWork == <<login_ok, lpc, poll_i, waited, host_log, renewal_results,
             results.hosts_renewed, results.hosts_failed, results.success>>

C31_Original ==
    vpc = "returned" => ret.clicks <= 1

\* ---------------------------------------------------------------- C32
\* A Playwright driver or a browser acquired by setup_browser is still
\* held: self.playwright was started and not stopped, or self.browser was
\* launched and not closed.
ResourceHeld == playwright = "started" \/ browser = "open"

\* C32 as stated: when run_renewal_process ends, the Playwright driver and
\* the browser its setup_browser acquired have been released, and when the
\* scheduler starts the next run nothing acquired by an earlier run is
\* still held.
C32_Original ==
    /\ RunEnded => ~ResourceHeld
    /\ (spc = "running" /\ pc = "start") => ~ResourceHeld

\* ---------------------------------------------------------------- C33
\* C33 as stated: whatever the record holds when the loop is entered
\* (nothing, a timestamp, text that cannot be parsed), with time advancing
\* and every sleep returning, monitor_renewal_schedule executes a renewal
\* run again and again.
C33_Original == []<>(spc = "running")

\* ---------------------------------------------------------------- C34
\* The run has ended and the browser.close() of its finally clause raised
\* on the open browser: close was called and the browser is still open.
CloseFailed == RunEnded /\ close_calls = 1 /\ browser = "open"

\* C34 as stated: when browser.close() fails at the end of a run, the
\* report still gets its end time, the final notification step is still
\* executed, run_renewal_process returns the report and raises nothing, and
\* the scheduler then writes the timestamp record for that run.
C34_Original ==
    /\ [](CloseFailed =>
            /\ results.end_time
            /\ FinalNotifications = send_final_notification(results)
            /\ pc # "raised")
    /\ [][(CloseFailed /\ spc = "running" /\ spc' = "check") =>
              last_run' = Record(iter_now)]_vars


====
